---- MODULE Spec2Model ----
(***************************************************************************)
(* The request/response cycle of the React client of src/frontend/src/     *)
(* App.js: the input field and its state `number`, the click handler       *)
(* squareHandler, the calls it leaves in flight, and the element text_a     *)
(* that sample() overwrites.  The file holds two versions of squareHandler: *)
(* the one of App.js itself (lines 14-18, POST /square, no .catch) and the  *)
(* one the HTTPS guide replaces it with (lines 733-746, POST /api/square,   *)
(* numberInt, .catch).  `variant` says which of the two is deployed.        *)
(*                                                                         *)
(* A JavaScript string is a sequence of one-character strings.             *)
(***************************************************************************)
EXTENDS Integers, Sequences, FiniteSets, TLC

VARIABLES
    variant,        \* "square": squareHandler of App.js; "api": the guide's
    target_value,   \* the text in the input field (event.target.value)
    number,         \* const [number, setNumber] = useState("")
    calls,          \* the axios.post calls issued, in trigger order
    completed,      \* the calls that have settled, in the order they did
    renders,        \* the invocations of sample(), in order
    unhandled,      \* the calls whose rejection no handler caught
    text_a          \* innerHTML of <h1 id="text_a">

vars == <<variant, target_value, number, calls, completed, renders, unhandled, text_a>>

\* The most calls the model lets a run issue.
MaxCalls == 2

\* ------------------------------------------------------------- strings

Digits == <<"0", "1", "2", "3", "4", "5", "6", "7", "8", "9">>

IsDigit(c) == \E d \in 1..10 : Digits[d] = c

DigitVal(c) == (CHOOSE d \in 1..10 : Digits[d] = c) - 1

HasPrefix(s, p) == Len(s) >= Len(p) /\ SubSeq(s, 1, Len(p)) = p

\* What the user can leave in the input field: nothing, integers in
\* decimal, text that is no number, a number after a blank.
Inputs ==
    { <<>>, <<"5">>, <<"-", "3">>, <<"a">>, <<" ", "5">> }

\* ------------------------------------------------------------- JavaScript values

JSString(s) == [t |-> "string", s |-> s, n |-> 0]

JSNumber(n) == [t |-> "number", s |-> <<>>, n |-> n]

NaN == [t |-> "NaN", s |-> <<>>, n |-> 0]

Null == [t |-> "null", s |-> <<>>, n |-> 0]

RECURSIVE TrimLeft(_)
TrimLeft(s) ==
    IF s # <<>> /\ Head(s) = " " THEN TrimLeft(Tail(s)) ELSE s

RECURSIVE DigitPrefix(_)
DigitPrefix(s) ==
    IF s # <<>> /\ IsDigit(Head(s)) THEN <<Head(s)>> \o DigitPrefix(Tail(s)) ELSE <<>>

RECURSIVE DigitsValue(_, _)
DigitsValue(s, acc) ==
    IF s = <<>> THEN acc ELSE DigitsValue(Tail(s), 10 * acc + DigitVal(Head(s)))

\* parseInt(s, 10): leading blanks are skipped, then a sign, then the longest
\* run of digits; NaN when there is no digit.
parseInt(s) ==
    LET t == TrimLeft(s)
        signed == t # <<>> /\ Head(t) \in {"-", "+"}
        u == IF signed THEN Tail(t) ELSE t
        d == DigitPrefix(u)
    IN  IF d = <<>> THEN NaN
        ELSE IF signed /\ Head(t) = "-" THEN JSNumber(0 - DigitsValue(d, 0))
        ELSE JSNumber(DigitsValue(d, 0))

\* JSON.stringify of the field of the request object: NaN is written null.
JSONValue(v) == IF v.t = "NaN" THEN Null ELSE v

\* ------------------------------------------------------------- the remote service

\* An integer literal: an optional minus sign and at least one digit.
IsIntLiteral(s) ==
    LET u == IF s # <<>> /\ Head(s) = "-" THEN Tail(s) ELSE s
    IN  u # <<>> /\ DigitPrefix(u) = u

StrToInt(s) ==
    IF Head(s) = "-" THEN 0 - DigitsValue(Tail(s), 0) ELSE DigitsValue(s, 0)

\* The request model of the endpoint: a body whose field is a number, or a
\* string holding an integer literal, is accepted; anything else is refused.
My_Number_Class(v) ==
    IF v.t = "number" THEN [ok |-> TRUE, number |-> v.n]
    ELSE IF v.t = "string" /\ IsIntLiteral(v.s) THEN [ok |-> TRUE, number |-> StrToInt(v.s)]
    ELSE [ok |-> FALSE, number |-> 0]

RECURSIVE Decimal(_)
Decimal(n) ==
    IF n < 10 THEN <<Digits[n + 1]>> ELSE Decimal(n \div 10) \o <<Digits[(n % 10) + 1]>>

\* Python's str() of an int.
PyStr(n) == IF n < 0 THEN <<"-">> \o Decimal(0 - n) ELSE Decimal(n)

\* An endpoint that adds the number to itself.
square_sum(data) == PyStr(data.number + data.number)

\* def square(data): number = data.number; return str(number*number)
square(data) == PyStr(data.number * data.number)

\* error.message of the two failures a call can end in.
NetworkError ==
    <<"N", "e", "t", "w", "o", "r", "k", " ", "E", "r", "r", "o", "r">>

StatusError ==
    <<"R", "e", "q", "u", "e", "s", "t", " ", "f", "a", "i", "l", "e", "d", " ",
      "w", "i", "t", "h", " ", "s", "t", "a", "t", "u", "s", " ", "c", "o", "d", "e",
      " ", "4", "2", "2">>

ErrorPrefix == <<"E", "r", "r", "o", "r", ":", " ">>

\* The failures call i can end in: the transport can always fail, and the
\* endpoint answers a body it refuses with an error status.
Failures(i) ==
    {NetworkError} \cup (IF My_Number_Class(calls[i].payload).ok THEN {} ELSE {StatusError})

\* ------------------------------------------------------------- the client

\* An App whose input state starts as "0".
Init_zero ==
    /\ variant \in {"square", "api"}
    /\ target_value = <<>>
    /\ number = <<"0">>
    /\ calls = <<>>
    /\ completed = <<>>
    /\ renders = <<>>
    /\ unhandled = {}
    /\ text_a = <<>>

\* App as mounted: useState(""), an empty field, an empty <h1 id="text_a">.
Init ==
    /\ variant \in {"square", "api"}
    /\ target_value = <<>>
    /\ number = <<>>
    /\ calls = <<>>
    /\ completed = <<>>
    /\ renders = <<>>
    /\ unhandled = {}
    /\ text_a = <<>>

\* An onChange whose value is shared with the requests still in flight.
onChange_shared(s) ==
    /\ target_value' = s
    /\ number' = s
    /\ calls' = [i \in 1..Len(calls) |->
                   IF calls[i].state = "pending" /\ calls[i].payload.t = "string"
                     THEN [calls[i] EXCEPT !.payload = JSString(s)]
                     ELSE calls[i]]
    /\ UNCHANGED <<variant, completed, renders, unhandled, text_a>>

\* An onChange that trims the blanks the user typed first.
onChange_trim(s) ==
    /\ target_value' = s
    /\ number' = TrimLeft(s)
    /\ UNCHANGED <<variant, calls, completed, renders, unhandled, text_a>>

\* onChange={(event) => setNumber(event.target.value)}: the user leaves s in
\* the field and the handler stores the field's value.
onChange(s) ==
    /\ target_value' = s
    /\ number' = s
    /\ UNCHANGED <<variant, calls, completed, renders, unhandled, text_a>>

\* const numberInt: the integer the guide's handler sends for the input.
numberInt == parseInt(number)

\* axios.post(url, { number: v }): one more call in flight.
post(v) ==
    Append(calls, [typed |-> number, payload |-> JSONValue(v),
                   state |-> "pending", data |-> <<>>])

\* A squareHandler that blanks the display while its request is on its way.
squareHandler_blank ==
    /\ variant = "square"
    /\ Len(calls) < MaxCalls
    /\ calls' = post(JSString(number))
    /\ text_a' = <<>>
    /\ UNCHANGED <<variant, target_value, number, completed, renders, unhandled>>

\* A squareHandler that empties the input state once the request is sent.
squareHandler_clear ==
    /\ variant = "square"
    /\ Len(calls) < MaxCalls
    /\ calls' = post(JSString(number))
    /\ number' = <<>>
    /\ UNCHANGED <<variant, target_value, completed, renders, unhandled, text_a>>

\* A squareHandler that ignores the click while a call is outstanding.
squareHandler_busy ==
    /\ variant = "square"
    /\ Len(calls) < MaxCalls
    /\ \A i \in 1..Len(calls) : calls[i].state # "pending"
    /\ calls' = post(JSString(number))
    /\ UNCHANGED <<variant, target_value, number, completed, renders, unhandled, text_a>>

\* squareHandler of App.js: axios.post("/square", { number: number }).
squareHandler ==
    /\ variant = "square"
    /\ Len(calls) < MaxCalls
    /\ calls' = post(JSString(number))
    /\ UNCHANGED <<variant, target_value, number, completed, renders, unhandled, text_a>>

\* A guide handler that sends nothing when the input holds no integer.
squareHandlerApi_valid ==
    /\ variant = "api"
    /\ Len(calls) < MaxCalls
    /\ numberInt # NaN
    /\ calls' = post(numberInt)
    /\ UNCHANGED <<variant, target_value, number, completed, renders, unhandled, text_a>>

\* squareHandler of the guide: axios.post("/api/square", { number: numberInt }).
squareHandlerApi ==
    /\ variant = "api"
    /\ Len(calls) < MaxCalls
    /\ calls' = post(numberInt)
    /\ UNCHANGED <<variant, target_value, number, completed, renders, unhandled, text_a>>

\* A sample() that writes only into an empty element.
sample_keep(result) == IF text_a # <<>> THEN text_a ELSE result

\* A sample() that adds to the element's content instead of replacing it.
sample_append(result) == text_a \o result

\* sample(result): document.getElementById("text_a").innerHTML = result.
sample(result) == result

\* Call i has ended with `state` and `data`.
Settle(i, state, data) ==
    /\ calls' = [calls EXCEPT ![i].state = state, ![i].data = data]
    /\ completed' = Append(completed, i)

\* A .then that drops the answer of any call but the one issued last.
Then_latest(i) ==
    LET data == My_Number_Class(calls[i].payload)
        body == square(data)
    IN  /\ calls[i].state = "pending"
        /\ data.ok
        /\ Settle(i, "fulfilled", body)
        /\ text_a' = IF i = Len(calls) THEN sample(body) ELSE text_a
        /\ renders' = IF i = Len(calls)
                         THEN Append(renders, [call |-> i, text |-> sample(body)])
                         ELSE renders
        /\ UNCHANGED <<variant, target_value, number, unhandled>>

\* .then((res) => { sample(res.data); }): the endpoint accepted the body of
\* call i and its answer has arrived.
Then(i) ==
    LET data == My_Number_Class(calls[i].payload)
        body == square(data)
    IN  /\ calls[i].state = "pending"
        /\ data.ok
        /\ Settle(i, "fulfilled", body)
        /\ text_a' = sample(body)
        /\ renders' = Append(renders, [call |-> i, text |-> sample(body)])
        /\ UNCHANGED <<variant, target_value, number, unhandled>>

\* App.js: the promise of call i is rejected and the chain has no .catch.
Rejected(i, message) ==
    /\ variant = "square"
    /\ calls[i].state = "pending"
    /\ message \in Failures(i)
    /\ Settle(i, "rejected", message)
    /\ unhandled' = unhandled \cup {i}
    /\ UNCHANGED <<variant, target_value, number, renders, text_a>>

\* A .catch that displays the bare message, without the error marker.
Catch_bare(i, message) ==
    /\ variant = "api"
    /\ calls[i].state = "pending"
    /\ message \in Failures(i)
    /\ Settle(i, "rejected", message)
    /\ text_a' = sample(message)
    /\ renders' = Append(renders, [call |-> i, text |-> sample(message)])
    /\ UNCHANGED <<variant, target_value, number, unhandled>>

\* A .catch that sends the failed request once more.
Catch_retry(i, message) ==
    /\ variant = "api"
    /\ calls[i].state = "pending"
    /\ message \in Failures(i)
    /\ calls' = Append([calls EXCEPT ![i].state = "rejected", ![i].data = message],
                       [calls[i] EXCEPT !.state = "pending"])
    /\ completed' = Append(completed, i)
    /\ text_a' = sample(ErrorPrefix \o message)
    /\ renders' = Append(renders, [call |-> i, text |-> sample(ErrorPrefix \o message)])
    /\ UNCHANGED <<variant, target_value, number, unhandled>>

\* The guide: .catch((error) => { sample("Error: " + error.message); }).
Catch(i, message) ==
    /\ variant = "api"
    /\ calls[i].state = "pending"
    /\ message \in Failures(i)
    /\ Settle(i, "rejected", message)
    /\ text_a' = sample(ErrorPrefix \o message)
    /\ renders' = Append(renders, [call |-> i, text |-> sample(ErrorPrefix \o message)])
    /\ UNCHANGED <<variant, target_value, number, unhandled>>

Next ==
    \/ \E s \in Inputs : onChange(s)
    \/ squareHandler
    \/ squareHandlerApi
    \/ \E i \in 1..Len(calls) : Then(i)
    \/ \E i \in 1..Len(calls) : \E m \in {NetworkError, StatusError} : Rejected(i, m)
    \/ \E i \in 1..Len(calls) : \E m \in {NetworkError, StatusError} : Catch(i, m)

Spec == Init /\ [][Next]_vars

\* The remote service settles call i: an answer, or a failure.
Respond(i) ==
    /\ i \in 1..Len(calls)
    /\ \/ Then(i)
       \/ \E m \in {NetworkError, StatusError} : Rejected(i, m)
       \/ \E m \in {NetworkError, StatusError} : Catch(i, m)

\* The client with a remote service that settles every call it is sent.
SpecFair == Spec /\ \A i \in 1..MaxCalls : WF_vars(Respond(i))

\* The largest absolute value of the integers of the round trip.
MaxN == 12

\* The decimal text of the integers -MaxN .. MaxN, as a user types them.
Numerals == {PyStr(n) : n \in (0 - MaxN)..MaxN}

\* The client after the user has typed an integer into the field.
InitNumeral ==
    /\ variant \in {"square", "api"}
    /\ target_value \in Numerals
    /\ number = target_value
    /\ calls = <<>>
    /\ completed = <<>>
    /\ renders = <<>>
    /\ unhandled = {}
    /\ text_a = <<>>

\* Triggers and completions, the field left alone.
NextNumeral ==
    \/ squareHandler
    \/ squareHandlerApi
    \/ \E i \in 1..Len(calls) : Then(i)
    \/ \E i \in 1..Len(calls) : \E m \in {NetworkError, StatusError} : Rejected(i, m)
    \/ \E i \in 1..Len(calls) : \E m \in {NetworkError, StatusError} : Catch(i, m)

SpecNumeral == InitNumeral /\ [][NextNumeral]_vars

\* ------------------------------------------------------------- the claims

Ids == 1..Len(calls)

Pending(i) == calls[i].state = "pending"

Fulfilled(i) == calls[i].state = "fulfilled"

Failed(i) == calls[i].state = "rejected"

RenderedFor(i) == \E k \in 1..Len(renders) : renders[k].call = i

\* C1: once every issued call has completed, the number of renders equals the
\* number of triggers, and no call has completed without a render of its own.
C1_OneRenderPerTrigger ==
    /\ (\A i \in Ids : ~Pending(i)) => Len(renders) = Len(calls)
    /\ \A i \in Ids : ~Pending(i) => RenderedFor(i)

\* C2: when the call that completed last has failed, the failure was caught
\* and rendered: no rejection is left unhandled, and the displayed text is a
\* non-empty message that begins with "Error:".
C2_FailureRendered ==
    /\ unhandled = {}
    /\ \A i \in Ids :
          (Failed(i) /\ completed[Len(completed)] = i) =>
              /\ text_a # <<>>
              /\ HasPrefix(text_a, <<"E", "r", "r", "o", "r", ":">>)

\* The two-trigger race of C3: two calls were issued, both were answered, and
\* the first was answered after the second.
FirstResolvesLast ==
    /\ Len(calls) >= 2
    /\ completed = <<2, 1>>
    /\ Fulfilled(1)
    /\ Fulfilled(2)

\* C3 as stated: when the first of two overlapping calls resolves after the
\* second, the element shows the second call's result.
C3_SecondCallDisplayed == FirstResolvesLast => text_a = calls[2].data

\* C3 as amended: when the first of two overlapping calls resolves after the
\* second, the element shows the first call's result, the last to resolve.
C3_LastResolvedDisplayed == FirstResolvesLast => text_a = calls[1].data

\* The race of C3 with two different results.
C3_Witness == FirstResolvesLast /\ calls[1].data # calls[2].data

\* What the completion of call i displays, when it displays something: the
\* response body, or the failure message behind the error marker.
Outcome(i) == IF Fulfilled(i) THEN calls[i].data ELSE ErrorPrefix \o calls[i].data

\* The completion of call i renders: every answer does, and a failure does
\* where the handler has a .catch.
Shows(i) == Fulfilled(i) \/ (Failed(i) /\ variant = "api")

\* The call whose completion was the last one to render, 0 when none has.
LastShown ==
    LET ks == {k \in 1..Len(completed) : Shows(completed[k])}
    IN  IF ks = {} THEN 0 ELSE completed[CHOOSE k \in ks : \A j \in ks : j <= k]

Complete(i) ==
    \/ Then(i)
    \/ \E m \in {NetworkError, StatusError} : Rejected(i, m)
    \/ \E m \in {NetworkError, StatusError} : Catch(i, m)

\* C4: last writer wins: the displayed text is the outcome of the call whose
\* rendering completion came last, whatever the order of the triggers; and no
\* call is cancelled: a trigger leaves every earlier call as it was, and a
\* pending call can always still complete.
C4_LastWriterWins ==
    /\ [](LastShown # 0 => text_a = Outcome(LastShown))
    /\ [](\A i \in Ids : Pending(i) => ENABLED Complete(i))
    /\ [][Len(calls') > Len(calls) =>
             \A i \in Ids : calls'[i] = calls[i]]_vars

\* The guide's handler: the second call was answered first, then the first
\* call failed, and the display holds the first call's failure.
C4_Witness ==
    /\ variant = "api"
    /\ completed = <<2, 1>>
    /\ Fulfilled(2)
    /\ Failed(1)
    /\ text_a = ErrorPrefix \o calls[1].data

\* C5: the InputValue is exactly the text of the field: after onChange(s)
\* number is s, untrimmed and unparsed, calls outstanding or not.
C5_InputVerbatim == number = target_value

\* The field holds " 5", blank included, while a call for another input is
\* outstanding.
C5_Witness ==
    /\ number = <<" ", "5">>
    /\ \E i \in Ids : Pending(i) /\ calls[i].typed # number

\* C6: when a call completes successfully, the displayed text becomes exactly
\* the response body.
C6_SuccessVerbatim ==
    [][\A i \in Ids :
          (Pending(i) /\ calls'[i].state = "fulfilled") => text_a' = calls'[i].data]_vars

\* Input "5", answer "25", displayed "25", over an earlier result.
C6_Witness ==
    /\ text_a = <<"2", "5">>
    /\ Len(renders) = 2
    /\ \E i \in Ids : Fulfilled(i) /\ calls[i].typed = <<"5">> /\ completed[2] = i

\* C7: for an input that is the decimal text of an integer n, a call that the
\* squaring endpoint answers is a success whose text reads back as n * n, and
\* the endpoint never refuses such an input.
C7_SquareRoundTrip ==
    \A i \in Ids :
        LET n == StrToInt(calls[i].typed)
        IN  /\ Fulfilled(i) =>
                 /\ IsIntLiteral(calls[i].data)
                 /\ StrToInt(calls[i].data) = n * n
            /\ Failed(i) => calls[i].data = NetworkError

\* Input "-7", answer "49", displayed.
C7_Witness ==
    \E i \in Ids :
        /\ Fulfilled(i)
        /\ calls[i].typed = <<"-", "7">>
        /\ calls[i].data = <<"4", "9">>
        /\ text_a = <<"4", "9">>

Trigger == squareHandler \/ squareHandlerApi

\* An input that holds no integer to read: "" and "a" among the inputs.
NonNumeric(s) == parseInt(s) = NaN

C9_PayloadAtTrigger ==
    [][/\ Len(calls') # Len(calls) =>
             /\ Len(calls') = Len(calls) + 1
             /\ (variant = "square" =>
                    calls'[Len(calls')].payload = JSString(target_value))
       /\ \A i \in Ids : calls'[i].payload = calls[i].payload]_vars

\* App.js: two calls with different payloads, the first still in flight, and
\* the field edited once more since.
C9_Witness ==
    /\ variant = "square"
    /\ Len(calls) = 2
    /\ Pending(1)
    /\ calls[1].payload # calls[2].payload
    /\ calls[2].payload = JSString(<<"5">>)
    /\ number = <<"a">>

\* C10: an outstanding call blocks nothing: with calls pending every edit is
\* enabled and so is the trigger, and a trigger issued then adds one pending
\* call and leaves the others, and the completions so far, as they were.
C10_NeverBlocksInput ==
    /\ [](\A s \in Inputs : ENABLED onChange(s))
    /\ []((Len(calls) < MaxCalls /\ \E i \in Ids : Pending(i)) => ENABLED Trigger)
    /\ [][(Len(calls') > Len(calls) /\ \E i \in Ids : Pending(i)) =>
             /\ calls' = Append(calls, calls'[Len(calls')])
             /\ calls'[Len(calls')].state = "pending"
             /\ completed' = completed]_vars

\* Two calls pending at once, and the field edited while they are.
C10_Witness ==
    /\ Len(calls) = 2
    /\ Pending(1)
    /\ Pending(2)
    /\ number # calls[2].typed

\* C11: no retries: calls are issued by triggers alone, one per trigger; a
\* completion, a failure included, issues none.
C11_NoRetries ==
    [][/\ Trigger => Len(calls') = Len(calls) + 1
       /\ Len(calls') # Len(calls) => Trigger
       /\ completed' # completed => Len(calls') = Len(calls)]_vars

\* One trigger, its call has failed, and there is still one call.
C11_Witness ==
    /\ Len(calls) = 1
    /\ completed = <<1>>
    /\ Failed(1)

\* C12: number is changed by edits alone: a step that changes it is an
\* onChange step, so a trigger, a completion and a render leave it alone.
C12_OnlyEditsChangeInput ==
    [][number' # number =>
          /\ \E s \in Inputs : onChange(s)
          /\ calls' = calls
          /\ completed' = completed
          /\ renders' = renders]_vars

\* App.js: "5" was typed once, then two triggers, an answer and a failure,
\* and number is still "5".
C12_Witness ==
    /\ variant = "square"
    /\ number = <<"5">>
    /\ Len(calls) = 2
    /\ calls[1].typed = <<"5">>
    /\ calls[2].typed = <<"5">>
    /\ Fulfilled(1)
    /\ Failed(2)

\* sample() has been called with the outcome of call i.
RenderedOutcome(i) ==
    /\ i \in Ids
    /\ \E k \in 1..Len(renders) : renders[k].call = i /\ renders[k].text = Outcome(i)

\* C13: with a remote service that settles every call, every trigger is
\* eventually followed by a render of its call's outcome.
C13_EveryTriggerRendered ==
    \A i \in 1..MaxCalls : [](Len(calls) >= i => <>RenderedOutcome(i))

\* C13 for the guide's handler alone.
C13_ApiRendered ==
    \A i \in 1..MaxCalls : []((variant = "api" /\ Len(calls) >= i) => <>RenderedOutcome(i))

\* C14: the displayed text is changed by call completions alone: a step that
\* changes it settles a call and is neither an edit nor a trigger, and the
\* display is empty as long as no completion has rendered.
C14_OnlyCompletionsChangeDisplay ==
    /\ []((\A i \in Ids : ~Shows(i)) => text_a = <<>>)
    /\ [][text_a' # text_a =>
             /\ Len(completed') = Len(completed) + 1
             /\ Len(calls') = Len(calls)
             /\ number' = number
             /\ target_value' = target_value]_vars

\* The first call's answer is still displayed while a second call is pending
\* and the field has been edited again.
C14_Witness ==
    /\ Len(calls) = 2
    /\ Fulfilled(1)
    /\ Pending(2)
    /\ text_a # <<>>
    /\ text_a = calls[1].data
    /\ number # calls[2].typed

\* C15: at the start the InputValue is "", the display is empty and no call
\* is pending; and the trigger of App.js, pressed while the InputValue is
\* still "", issues a call whose field `number` is the empty string.
C15_InitialState ==
    /\ number = <<>>
    /\ text_a = <<>>
    /\ calls = <<>>
    /\ [][(Trigger /\ variant = "square" /\ number = <<>>) =>
             /\ calls'[Len(calls')].payload = JSString(<<>>)
             /\ calls'[Len(calls')].state = "pending"]_vars

\* App.js: the trigger was pressed on the untouched field, and its call, with
\* the empty string in it, is in flight.
C15_Witness ==
    /\ variant = "square"
    /\ target_value = <<>>
    /\ number = <<>>
    /\ text_a = <<>>
    /\ Len(calls) = 1
    /\ Pending(1)
    /\ calls[1].payload = JSString(<<>>)

\* C16: the displayed text is the initial empty text or the outcome of a call
\* that a trigger issued and that has completed: the response body, or the
\* failure message behind the error marker; never something of a pending call.
C16_DisplayAccountedFor ==
    \/ text_a = <<>>
    \/ \E k \in 1..Len(completed) :
          /\ completed[k] \in Ids
          /\ ~Pending(completed[k])
          /\ text_a = Outcome(completed[k])

\* The guide's handler: the display holds the refusal of the first call, for
\* the input "a", while the call for "5" is still pending.
C16_Witness ==
    /\ variant = "api"
    /\ Len(calls) = 2
    /\ Failed(1)
    /\ Pending(2)
    /\ calls[2].typed = <<"5">>
    /\ text_a = ErrorPrefix \o StatusError

====
